---- MODULE Spec2Model ----
(***************************************************************************)
(* Model of dramatiq/middleware/threading.py: the cross-thread interrupt   *)
(* primitive raise_thread_exception, the CPython injector                  *)
(* _raise_thread_exception_cpython and the process-wide system-call        *)
(* interrupt controller (enable/disable_system_call_interruptable_support).*)
(*                                                                         *)
(* The module's own code is modelled line by line.  What it calls into is  *)
(* modelled by its documented behaviour:                                   *)
(*  - PyThreadState_SetAsyncExc(id, exc) stores exc in the async-exception *)
(*    slot of every thread state whose id matches and returns how many     *)
(*    matched; exc = NULL clears the slot;                                 *)
(*  - signal.siginterrupt(sig, flag) sets whether a handled signal makes a *)
(*    blocking system call return early; signal.signal(sig, h) sets the    *)
(*    disposition and, as the library documents, resets the restart        *)
(*    behaviour to interruptible;                                          *)
(*  - signal.pthread_kill(id, sig) raises ProcessLookupError when no such  *)
(*    thread exists, otherwise the signal is delivered to that thread:     *)
(*    with the default disposition of the user-defined signal the process  *)
(*    is terminated, with a handler installed a blocked system call of the *)
(*    thread returns early iff siginterrupt is on.                         *)
(* A target thread is a loop of checkpoints ("loop") that may also enter   *)
(* blocking system calls and exit ("io").  A blocking call is a raw system *)
(* call: when it returns, the thread is back in managed code and its next  *)
(* step is a checkpoint.                                                   *)
(***************************************************************************)
EXTENDS Integers, Sequences, FiniteSets, TLC

\* ---- bounds of the model ----
MaxCalls == 2

Threads == {1, 2}
Callers == {1, 2}

\* what each target thread runs: a tight loop of checkpoints, or a loop that
\* also makes blocking system calls and may return
kind == [t \in Threads |-> IF t = 1 THEN "loop" ELSE "io"]

\* ---- values ----
Interrupt == [isclass |-> TRUE, cls |-> "Interrupt"]
MyInterrupt == [isclass |-> FALSE, cls |-> "MyInterrupt"]
Exceptions == {Interrupt, MyInterrupt}
NULL == [isclass |-> FALSE, cls |-> "NULL"]

\* the exception each caller passes: one interrupter passes the class, the
\* other an instance of a subclass
Payload(r) == IF r = 1 THEN Interrupt ELSE MyInterrupt

SIG_DFL == "SIG_DFL"
interrupt_signal_handler == "interrupt_signal_handler"

supported_platforms == {"CPython"}
Platforms == {"CPython", "PyPy"}

VARIABLES
    current_platform,            \* platform.python_implementation()
    signal_defined,              \* hasattr(signal, system_call_interrupt_signal)
    system_call_interruptable,   \* the module-level flag
    handler,                     \* disposition of the designated signal
    siginterrupt,                \* TRUE: a handled signal interrupts system calls
    registrations,               \* registrations of interrupt_signal_handler in effect:
                                 \*   signal.signal(sig, handler) calls since the last SIG_DFL
    ctl,                         \* the coordinating context running enable/disable
    process,                     \* "running" or "killed" (default action of the signal)
    ncalls,                      \* calls of raise_thread_exception made so far
    thread_id,                   \* thread state -> thread identifier
    pos,                         \* thread state -> position of the thread
    async_exc,                   \* thread state -> pending-exception slot
    observed,                    \* thread state -> what it raised at checkpoints: the
                                 \*   exception and the number of the injection it came from
    woke,                        \* thread state -> how its last system call ended
    staged,                      \* thread state -> number of injections staged in its slot
    call                         \* caller -> activation record of raise_thread_exception

ctlvars == <<system_call_interruptable, handler, siginterrupt, registrations, ctl>>
thrvars == <<thread_id, pos, async_exc, observed, woke, staged>>
vars == <<current_platform, signal_defined, system_call_interruptable, handler, siginterrupt,
          registrations, ctl, process, ncalls, thread_id, pos, async_exc,
          observed, woke, staged, call>>

\* ---- pure helpers ----

\* (exception if inspect.isclass(exception) else type(exception)).__name__
TypeOf(e) == [isclass |-> TRUE, cls |-> e.cls]
ExcTypeName(e) == (IF e.isclass THEN e ELSE TypeOf(e)).cls

\* thread states the runtime still lists
Alive(t) == pos[t] # "exited"

\* thread states whose identifier equals id
Matches(id) == {t \in Threads : Alive(t) /\ thread_id[t] = id}

IdleCall == [pc |-> "idle", tid |-> 0, exc |-> NULL, ret |-> -1, flag |-> "unread",
             kill |-> "no", logs |-> <<>>, stage |-> 0, target |-> 0, result |-> "none"]

InitCommon ==
    /\ current_platform \in Platforms
    /\ signal_defined \in BOOLEAN
    /\ system_call_interruptable = FALSE
    /\ handler = SIG_DFL
    /\ siginterrupt = TRUE
    /\ registrations = 0
    /\ ctl = [pc |-> "idle", op |-> "none", acted |-> FALSE]
    /\ process = "running"
    /\ ncalls = 0
    /\ pos = [t \in Threads |-> "run"]
    /\ async_exc = [t \in Threads |-> NULL]
    /\ observed = [t \in Threads |-> {}]
    /\ woke = [t \in Threads |-> "none"]
    /\ staged = [t \in Threads |-> 0]
    /\ call = [r \in Callers |-> IdleCall]

Init ==
    /\ InitCommon
    /\ thread_id = [t \in Threads |-> t]

Running == process = "running"


\* ---- library calls, by their documented behaviour ----

\* signal.siginterrupt(sig, flag)
signal_siginterrupt(flag) ==
    siginterrupt' = flag

\* signal.signal(sig, h): sets the disposition; installing any disposition
\* resets the restart behaviour to interruptible
signal_signal(h) ==
    /\ handler' = h
    /\ siginterrupt' = TRUE
    /\ registrations' = IF h = interrupt_signal_handler THEN registrations + 1 ELSE 0

\* ---- System-Call Interrupt Controller ----

\* Enable without the hasattr test of line 59: the signal is configured
\* whether or not the host defines it
Enable_NoHasattr ==
    /\ Running
    /\ ctl.pc = "idle"
    /\ ctl' = [pc |-> IF ~system_call_interruptable THEN "l60" ELSE "idle",
               op |-> "enable", acted |-> ~system_call_interruptable]
    /\ UNCHANGED <<system_call_interruptable, handler, siginterrupt, registrations>>
    /\ UNCHANGED <<current_platform, signal_defined, process, ncalls, thrvars, call>>

\* Enable without the test of the flag: a second enable registers again
Enable_NoArmedTest ==
    /\ Running
    /\ ctl.pc = "idle"
    /\ ctl' = [pc |-> IF signal_defined THEN "l60" ELSE "idle", op |-> "enable",
               acted |-> signal_defined]
    /\ UNCHANGED <<system_call_interruptable, handler, siginterrupt, registrations>>
    /\ UNCHANGED <<current_platform, signal_defined, process, ncalls, thrvars, call>>

\* enable_system_call_interruptable_support(): the test of line 59
Enable ==
    /\ Running
    /\ ctl.pc = "idle"
    /\ ctl' = [pc |-> IF ~system_call_interruptable /\ signal_defined THEN "l60" ELSE "idle",
               op |-> "enable", acted |-> ~system_call_interruptable /\ signal_defined]
    /\ UNCHANGED <<system_call_interruptable, handler, siginterrupt, registrations>>
    /\ UNCHANGED <<current_platform, signal_defined, process, ncalls, thrvars, call>>

\* line 60: signal.siginterrupt(sig, True)
EnableL60 ==
    /\ Running
    /\ ctl.pc = "l60"
    /\ signal_siginterrupt(TRUE)
    /\ ctl' = [ctl EXCEPT !.pc = "l61"]
    /\ UNCHANGED <<system_call_interruptable, handler, registrations>>
    /\ UNCHANGED <<current_platform, signal_defined, process, ncalls, thrvars, call>>

\* line 61: signal.signal(sig, interrupt_signal_handler)
EnableL61 ==
    /\ Running
    /\ ctl.pc = "l61"
    /\ signal_signal(interrupt_signal_handler)
    /\ ctl' = [ctl EXCEPT !.pc = "l62"]
    /\ UNCHANGED system_call_interruptable
    /\ UNCHANGED <<current_platform, signal_defined, process, ncalls, thrvars, call>>

\* line 62 without the assignment: the flag stays false
EnableL62_KeepsFlag ==
    /\ Running
    /\ ctl.pc = "l62"
    /\ ctl' = [ctl EXCEPT !.pc = "idle"]
    /\ UNCHANGED <<system_call_interruptable, handler, siginterrupt, registrations>>
    /\ UNCHANGED <<current_platform, signal_defined, process, ncalls, thrvars, call>>

\* line 62: system_call_interruptable = True
EnableL62 ==
    /\ Running
    /\ ctl.pc = "l62"
    /\ system_call_interruptable' = TRUE
    /\ ctl' = [ctl EXCEPT !.pc = "idle"]
    /\ UNCHANGED <<handler, siginterrupt, registrations>>
    /\ UNCHANGED <<current_platform, signal_defined, process, ncalls, thrvars, call>>

\* disable_system_call_interruptable_support(): the test of line 68
Disable ==
    /\ Running
    /\ ctl.pc = "idle"
    /\ ctl' = [pc |-> IF system_call_interruptable THEN "l69" ELSE "idle",
               op |-> "disable", acted |-> system_call_interruptable]
    /\ UNCHANGED <<system_call_interruptable, handler, siginterrupt, registrations>>
    /\ UNCHANGED <<current_platform, signal_defined, process, ncalls, thrvars, call>>

\* line 69: signal.siginterrupt(sig, False)
DisableL69 ==
    /\ Running
    /\ ctl.pc = "l69"
    /\ signal_siginterrupt(FALSE)
    /\ ctl' = [ctl EXCEPT !.pc = "l70"]
    /\ UNCHANGED <<system_call_interruptable, handler, registrations>>
    /\ UNCHANGED <<current_platform, signal_defined, process, ncalls, thrvars, call>>

\* line 70 without the call of signal.signal: the handler stays installed
DisableL70_KeepsHandler ==
    /\ Running
    /\ ctl.pc = "l70"
    /\ ctl' = [ctl EXCEPT !.pc = "l71"]
    /\ UNCHANGED <<system_call_interruptable, handler, siginterrupt, registrations>>
    /\ UNCHANGED <<current_platform, signal_defined, process, ncalls, thrvars, call>>

\* line 70: signal.signal(sig, signal.SIG_DFL)
DisableL70 ==
    /\ Running
    /\ ctl.pc = "l70"
    /\ signal_signal(SIG_DFL)
    /\ ctl' = [ctl EXCEPT !.pc = "l71"]
    /\ UNCHANGED system_call_interruptable
    /\ UNCHANGED <<current_platform, signal_defined, process, ncalls, thrvars, call>>

\* line 71 without the assignment: the flag stays true
DisableL71_KeepsFlag ==
    /\ Running
    /\ ctl.pc = "l71"
    /\ ctl' = [ctl EXCEPT !.pc = "idle"]
    /\ UNCHANGED <<system_call_interruptable, handler, siginterrupt, registrations>>
    /\ UNCHANGED <<current_platform, signal_defined, process, ncalls, thrvars, call>>

\* line 71: system_call_interruptable = False
DisableL71 ==
    /\ Running
    /\ ctl.pc = "l71"
    /\ system_call_interruptable' = FALSE
    /\ ctl' = [ctl EXCEPT !.pc = "idle"]
    /\ UNCHANGED <<handler, siginterrupt, registrations>>
    /\ UNCHANGED <<current_platform, signal_defined, process, ncalls, thrvars, call>>

\* ---- target threads ----

\* the runtime polls the pending-exception slot: a pending exception is
\* raised in the thread, unwinding it out of its loop; the code that unwinds
\* keeps reaching checkpoints
Checkpoint(t) ==
    /\ Running
    /\ pos[t] \in {"run", "resumed", "raised"}
    /\ IF async_exc[t] # NULL
       THEN /\ pos' = [pos EXCEPT ![t] = "raised"]
            /\ observed' = [observed EXCEPT ![t] = @ \cup {[exc |-> async_exc[t], idx |-> staged[t]]}]
            /\ async_exc' = [async_exc EXCEPT ![t] = NULL]
       ELSE /\ pos' = [pos EXCEPT ![t] = IF @ = "resumed" THEN "run" ELSE @]
            /\ UNCHANGED <<observed, async_exc>>
    /\ UNCHANGED <<thread_id, woke, staged>>
    /\ UNCHANGED <<current_platform, signal_defined, ctlvars, process, ncalls, call>>

\* the thread enters a blocking system call
EnterSyscall(t) ==
    /\ Running
    /\ kind[t] = "io"
    /\ pos[t] = "run"
    /\ pos' = [pos EXCEPT ![t] = "blocked"]
    /\ woke' = [woke EXCEPT ![t] = "none"]
    /\ UNCHANGED <<thread_id, async_exc, observed, staged>>
    /\ UNCHANGED <<current_platform, signal_defined, ctlvars, process, ncalls, call>>

\* the blocking system call completes naturally
SyscallComplete(t) ==
    /\ Running
    /\ pos[t] = "blocked"
    /\ pos' = [pos EXCEPT ![t] = "resumed"]
    /\ woke' = [woke EXCEPT ![t] = "natural"]
    /\ UNCHANGED <<thread_id, async_exc, observed, staged>>
    /\ UNCHANGED <<current_platform, signal_defined, ctlvars, process, ncalls, call>>

\* the thread terminates, past its last checkpoint with nothing pending: its
\* function returned, or the raised exception unwound it
ThreadExit(t) ==
    /\ Running
    /\ \/ pos[t] = "run" /\ kind[t] = "io"
       \/ pos[t] = "raised"
    /\ async_exc[t] = NULL
    /\ pos' = [pos EXCEPT ![t] = "exited"]
    /\ async_exc' = [async_exc EXCEPT ![t] = NULL]
    /\ UNCHANGED <<thread_id, observed, woke, staged>>
    /\ UNCHANGED <<current_platform, signal_defined, ctlvars, process, ncalls, call>>


\* ---- raise_thread_exception ----

\* logger.critical(...) of lines 114, 116 and 105
LogFailed(e, id) == <<"critical", "Failed to set exception", ExcTypeName(e), id>>
LogMultiple(e) == <<"critical", "Exception was set in multiple threads", ExcTypeName(e), 0>>
LogUnsupported(e) == <<"critical", "not supported for your current platform", ExcTypeName(e), current_platform>>

\* an injection that reports its matches and stores nothing
SetAsyncExc_Lost(id, e) == async_exc

\* PyThreadState_SetAsyncExc(id, e): the slots after the call
SetAsyncExc(id, e) == [t \in Threads |-> IF t \in Matches(id) THEN e ELSE async_exc[t]]

\* the call without the injection of line 96: the thread is looked up, nothing
\* is staged
Call_NoInjection(r, id, e) ==
    /\ Running
    /\ call[r].pc \in {"idle", "done"}
    /\ ncalls < MaxCalls
    /\ ncalls' = ncalls + 1
    /\ call' = [call EXCEPT ![r] =
          [pc |-> "l97", tid |-> id, exc |-> e, ret |-> Cardinality(Matches(id)),
           flag |-> "unread", kill |-> "no", logs |-> <<>>, stage |-> 0,
           target |-> IF Matches(id) # {} THEN CHOOSE t \in Matches(id) : TRUE ELSE 0,
           result |-> "none"]]
    /\ UNCHANGED <<thread_id, pos, async_exc, observed, woke, staged>>
    /\ UNCHANGED <<current_platform, signal_defined, ctlvars, process>>

\* the call without the platform test of line 95: the injection is attempted
\* on every platform
Call_NoPlatformTest(r, id, e) ==
    /\ Running
    /\ call[r].pc \in {"idle", "done"}
    /\ ncalls < MaxCalls
    /\ ncalls' = ncalls + 1
    /\ LET m == Matches(id)
           count == Cardinality(m)
       IN /\ async_exc' = SetAsyncExc(id, e)
          /\ staged' = [t \in Threads |-> IF t \in m THEN staged[t] + 1 ELSE staged[t]]
          /\ call' = [call EXCEPT ![r] =
                [pc |-> IF count > 1 THEN "l116" ELSE "l97",
                 tid |-> id, exc |-> e, ret |-> count, flag |-> "unread", kill |-> "no",
                 logs |-> IF count = 0 THEN <<LogFailed(e, id)>> ELSE <<>>,
                 stage |-> IF count = 1 THEN staged[CHOOSE t \in m : TRUE] + 1 ELSE 0,
                 target |-> IF count = 1 THEN CHOOSE t \in m : TRUE ELSE 0,
                 result |-> "none"]]
    /\ UNCHANGED <<thread_id, pos, observed, woke>>
    /\ UNCHANGED <<current_platform, signal_defined, ctlvars, process>>

\* lines 95-96 and 109-114: the platform test, then the injection and the
\* test of its count; lines 103-105 on another platform
Call(r, id, e) ==
    /\ Running
    /\ call[r].pc \in {"idle", "done"}
    /\ ncalls < MaxCalls
    /\ ncalls' = ncalls + 1
    /\ IF current_platform = "CPython"
       THEN LET m == Matches(id)
                count == Cardinality(m)
            IN /\ async_exc' = SetAsyncExc(id, e)
               /\ staged' = [t \in Threads |-> IF t \in m THEN staged[t] + 1 ELSE staged[t]]
               /\ call' = [call EXCEPT ![r] =
                     [pc |-> IF count > 1 THEN "l116" ELSE "l97",
                      tid |-> id, exc |-> e, ret |-> count, flag |-> "unread", kill |-> "no",
                      logs |-> IF count = 0 THEN <<LogFailed(e, id)>> ELSE <<>>,
                      stage |-> IF count = 1 THEN staged[CHOOSE t \in m : TRUE] + 1 ELSE 0,
                      target |-> IF count = 1 THEN CHOOSE t \in m : TRUE ELSE 0,
                      result |-> "none"]]
       ELSE /\ call' = [call EXCEPT ![r] =
                     [pc |-> "done", tid |-> id, exc |-> e, ret |-> -1, flag |-> "unread",
                      kill |-> "no", logs |-> <<LogUnsupported(e)>>, stage |-> 0, target |-> 0,
                      result |-> "None"]]
            /\ UNCHANGED <<async_exc, staged>>
    /\ UNCHANGED <<thread_id, pos, observed, woke>>
    /\ UNCHANGED <<current_platform, signal_defined, ctlvars, process>>

\* lines 116-118 without the second call of line 117: logged, not undone
Undo_NoRetraction(r) ==
    /\ Running
    /\ call[r].pc = "l116"
    /\ call' = [call EXCEPT ![r].pc = "l97", ![r].logs = Append(@, LogMultiple(call[r].exc))]
    /\ UNCHANGED <<thread_id, pos, async_exc, observed, woke, staged>>
    /\ UNCHANGED <<current_platform, signal_defined, ctlvars, process, ncalls>>

\* lines 116-118: the injection matched several thread states and is undone
Undo(r) ==
    /\ Running
    /\ call[r].pc = "l116"
    /\ async_exc' = SetAsyncExc(call[r].tid, NULL)
    /\ call' = [call EXCEPT ![r].pc = "l97", ![r].logs = Append(@, LogMultiple(call[r].exc))]
    /\ UNCHANGED <<thread_id, pos, observed, woke, staged>>
    /\ UNCHANGED <<current_platform, signal_defined, ctlvars, process, ncalls>>

\* line 97 as "ret == 1": the flag is read and not used
ReadFlag_IgnoresFlag(r) ==
    /\ Running
    /\ call[r].pc = "l97"
    /\ IF call[r].ret = 1
       THEN call' = [call EXCEPT
                ![r].flag = IF system_call_interruptable THEN "true" ELSE "false",
                ![r].pc = "l99"]
       ELSE call' = [call EXCEPT ![r].pc = "done", ![r].result = "None"]
    /\ UNCHANGED <<current_platform, signal_defined, ctlvars, process, ncalls, thrvars>>

\* line 97 as "ret == 1 and not system_call_interruptable"
ReadFlag_Inverted(r) ==
    /\ Running
    /\ call[r].pc = "l97"
    /\ IF call[r].ret = 1
       THEN call' = [call EXCEPT
                ![r].flag = IF system_call_interruptable THEN "true" ELSE "false",
                ![r].pc = IF ~system_call_interruptable THEN "l99" ELSE "done",
                ![r].result = IF ~system_call_interruptable THEN "none" ELSE "None"]
       ELSE call' = [call EXCEPT ![r].pc = "done", ![r].result = "None"]
    /\ UNCHANGED <<current_platform, signal_defined, ctlvars, process, ncalls, thrvars>>

\* line 97 as "system_call_interruptable": the count is not tested
ReadFlag_NoCountTest(r) ==
    /\ Running
    /\ call[r].pc = "l97"
    /\ call' = [call EXCEPT
          ![r].flag = IF system_call_interruptable THEN "true" ELSE "false",
          ![r].pc = IF system_call_interruptable THEN "l99" ELSE "done",
          ![r].result = IF system_call_interruptable THEN "none" ELSE "None"]
    /\ UNCHANGED <<current_platform, signal_defined, ctlvars, process, ncalls, thrvars>>

\* line 97: ret == 1 and system_call_interruptable (the flag is read only
\* when ret == 1); without a signal to send the function returns None
ReadFlag(r) ==
    /\ Running
    /\ call[r].pc = "l97"
    /\ IF call[r].ret = 1
       THEN call' = [call EXCEPT
                ![r].flag = IF system_call_interruptable THEN "true" ELSE "false",
                ![r].pc = IF system_call_interruptable THEN "l99" ELSE "done",
                ![r].result = IF system_call_interruptable THEN "none" ELSE "None"]
       ELSE call' = [call EXCEPT ![r].pc = "done", ![r].result = "None"]
    /\ UNCHANGED <<current_platform, signal_defined, ctlvars, process, ncalls, thrvars>>

\* line 99 as a signal to the process (os.kill) instead of pthread_kill: the
\* signal interrupts the blocked system call of whichever thread has one
Kill_ProcessWide(r) ==
    /\ Running
    /\ call[r].pc = "l99"
    /\ IF handler = SIG_DFL
       THEN /\ call' = [call EXCEPT ![r].kill = "sent"]
            /\ process' = "killed"
            /\ UNCHANGED <<pos, woke>>
       ELSE /\ call' = [call EXCEPT ![r].kill = "sent", ![r].pc = "done", ![r].result = "None"]
            /\ pos' = [t \in Threads |->
                         IF pos[t] = "blocked" /\ siginterrupt THEN "resumed" ELSE pos[t]]
            /\ woke' = [t \in Threads |->
                         IF pos[t] = "blocked" /\ siginterrupt THEN "signal" ELSE woke[t]]
            /\ UNCHANGED process
    /\ UNCHANGED <<thread_id, async_exc, observed, staged>>
    /\ UNCHANGED <<current_platform, signal_defined, ctlvars, ncalls>>

\* lines 98-99 without the except clause of lines 100-101: the error of
\* pthread_kill propagates to the caller
Kill_Propagates(r) ==
    /\ Running
    /\ call[r].pc = "l99"
    /\ LET m == Matches(call[r].tid)
       IN IF m = {}
          THEN /\ call' = [call EXCEPT ![r].kill = "ProcessLookupError", ![r].pc = "done",
                                       ![r].result = "raises ProcessLookupError"]
               /\ UNCHANGED <<pos, woke, process>>
          ELSE IF handler = SIG_DFL
          THEN /\ call' = [call EXCEPT ![r].kill = "sent"]
               /\ process' = "killed"
               /\ UNCHANGED <<pos, woke>>
          ELSE /\ call' = [call EXCEPT ![r].kill = "sent", ![r].pc = "done", ![r].result = "None"]
               /\ pos' = [t \in Threads |->
                            IF t \in m /\ pos[t] = "blocked" /\ siginterrupt
                            THEN "resumed" ELSE pos[t]]
               /\ woke' = [t \in Threads |->
                            IF t \in m /\ pos[t] = "blocked" /\ siginterrupt
                            THEN "signal" ELSE woke[t]]
               /\ UNCHANGED process
    /\ UNCHANGED <<thread_id, async_exc, observed, staged>>
    /\ UNCHANGED <<current_platform, signal_defined, ctlvars, ncalls>>

\* lines 98-101: signal.pthread_kill(thread_id, sig); ProcessLookupError is
\* swallowed.  The signal reaches the thread at once: the default
\* disposition terminates the process, the handler returns and a blocked
\* system call of the thread returns early when siginterrupt is on.
Kill(r) ==
    /\ Running
    /\ call[r].pc = "l99"
    /\ LET m == Matches(call[r].tid)
       IN IF m = {}
          THEN /\ call' = [call EXCEPT ![r].kill = "ProcessLookupError", ![r].pc = "done",
                                       ![r].result = "None"]
               /\ UNCHANGED <<pos, woke, process>>
          ELSE IF handler = SIG_DFL
          THEN /\ call' = [call EXCEPT ![r].kill = "sent"]
               /\ process' = "killed"
               /\ UNCHANGED <<pos, woke>>
          ELSE /\ call' = [call EXCEPT ![r].kill = "sent", ![r].pc = "done", ![r].result = "None"]
               /\ pos' = [t \in Threads |->
                            IF t \in m /\ pos[t] = "blocked" /\ siginterrupt
                            THEN "resumed" ELSE pos[t]]
               /\ woke' = [t \in Threads |->
                            IF t \in m /\ pos[t] = "blocked" /\ siginterrupt
                            THEN "signal" ELSE woke[t]]
               /\ UNCHANGED process
    /\ UNCHANGED <<thread_id, async_exc, observed, staged>>
    /\ UNCHANGED <<current_platform, signal_defined, ctlvars, ncalls>>

\* ---- specifications ----

Next ==
    \/ Enable
    \/ EnableL60
    \/ EnableL61
    \/ EnableL62
    \/ Disable
    \/ DisableL69
    \/ DisableL70
    \/ DisableL71
    \/ \E t \in Threads : Checkpoint(t)
    \/ \E t \in Threads : EnterSyscall(t)
    \/ \E t \in Threads : SyscallComplete(t)
    \/ \E t \in Threads : ThreadExit(t)
    \/ \E r \in Callers, id \in Threads : Call(r, id, Payload(r))
    \/ \E r \in Callers : ReadFlag(r)
    \/ \E r \in Callers : Kill(r)

Spec == Init /\ [][Next]_vars

\* The scenario specifications: the coordinating context does not toggle the
\* controller while a call of raise_thread_exception is in flight, and every
\* thread that can take a step of the code eventually takes it.  Nothing
\* makes a blocking system call complete.
NoCallInFlight == \A r \in Callers : call[r].pc \in {"idle", "done"}

NextStable ==
    \/ NoCallInFlight /\ Enable
    \/ EnableL60
    \/ EnableL61
    \/ EnableL62
    \/ NoCallInFlight /\ Disable
    \/ DisableL69
    \/ DisableL70
    \/ DisableL71
    \/ \E t \in Threads : Checkpoint(t)
    \/ \E t \in Threads : EnterSyscall(t)
    \/ \E t \in Threads : SyscallComplete(t)
    \/ \E t \in Threads : ThreadExit(t)
    \/ \E r \in Callers, id \in Threads : ctl.pc = "idle" /\ Call(r, id, Payload(r))
    \/ \E r \in Callers : ReadFlag(r)
    \/ \E r \in Callers : Kill(r)

Fairness ==
    /\ \A t \in Threads : WF_vars(Checkpoint(t))
    /\ \A r \in Callers : WF_vars(ReadFlag(r)) /\ WF_vars(Kill(r))

StableSpec == Init /\ [][NextStable]_vars

FairSpec == StableSpec /\ Fairness

\* The runtime lists several thread states under one identifier: the case
\* lines 115-117 provide for.  Either every thread has its own identifier or
\* the two thread states share identifier 1.
InitMulti ==
    /\ InitCommon
    /\ thread_id \in {[t \in Threads |-> t], [t \in Threads |-> 1]}

NextMulti ==
    \/ Next
    \/ \E r \in Callers : Undo(r)

SpecMulti == InitMulti /\ [][NextMulti]_vars

TypeOK ==
    /\ system_call_interruptable \in BOOLEAN
    /\ handler \in {SIG_DFL, interrupt_signal_handler}
    /\ siginterrupt \in BOOLEAN
    /\ process \in {"running", "killed"}
    /\ \A t \in Threads : pos[t] \in {"run", "blocked", "resumed", "raised", "exited"}
    /\ \A t \in Threads : async_exc[t] \in Exceptions \cup {NULL}
    /\ \A r \in Callers : call[r].pc \in {"idle", "l116", "l97", "l99", "done"}


\* ---- steps of a call, as seen in a transition ----

InjectStep(r) == call[r].pc \in {"idle", "done"} /\ call'[r].pc \in {"l97", "l116"}
ReturnStep(r) == call[r].pc # "done" /\ call'[r].pc = "done"
KillStep(r) == call[r].kill = "no" /\ call'[r].kill # "no"

\* ---- C1 ----
\* C1: in every call on the supported platform, pthread_kill is invoked for
\* the target thread if and only if the injection returned exactly 1 and the
\* flag was true when read after the injection; with another count, or the
\* flag false, no signal is sent.
C1_SignalIffCountOneAndFlag ==
    \A r \in Callers :
        /\ call[r].kill # "no" => call[r].ret = 1 /\ call[r].flag = "true"
        /\ call[r].pc = "done" /\ call[r].ret = 1 /\ call[r].flag = "true" => call[r].kill # "no"
        /\ call[r].flag = "false" \/ call[r].ret # 1 => call[r].pc # "l99" /\ call[r].kill = "no"

C1_Witness ==
    \E r \in Callers : call[r].pc = "done" /\ call[r].ret = 1 /\ call[r].flag = "true"
                       /\ call[r].kill = "sent"

\* ---- C2 ----
\* C2: every wake-signal send to thread T is preceded by the staging of the
\* payload in T's slot by the same call, and no system call of T is
\* interrupted by a signal before something was staged in T's slot.
C2_InjectionBeforeSignal ==
    [][ /\ \A r \in Callers :
            KillStep(r) /\ call'[r].kill = "sent" =>
                /\ call[r].stage >= 1
                /\ thread_id[call[r].target] = call[r].tid
                /\ staged[call[r].target] >= call[r].stage
        /\ \A t \in Threads : woke'[t] = "signal" /\ woke[t] # "signal" => staged[t] >= 1 ]_vars

C2_Witness ==
    \E r \in Callers : call[r].kill = "sent" /\ call[r].stage >= 1
                       /\ woke[call[r].target] = "signal"

\* ---- C3 ----
\* C3 as stated: for the identifier of a live thread the injection returns 1,
\* and when the call returns with count 1 the payload is in the thread's slot
\* or has been raised in the thread.
C3_Original ==
    [][\A r \in Callers :
        /\ InjectStep(r) /\ Matches(call'[r].tid) # {} =>
              call'[r].ret = 1 /\ async_exc'[call'[r].target] = call'[r].exc
        /\ ReturnStep(r) /\ call'[r].ret = 1 =>
              \/ async_exc'[call'[r].target] = call'[r].exc
              \/ \E o \in observed'[call'[r].target] : o.exc = call'[r].exc ]_vars

\* C3 amended: ... or a later injection into the same thread has replaced the
\* payload in the slot.
C3_StagedRaisedOrReplaced ==
    [][\A r \in Callers :
        /\ InjectStep(r) /\ Matches(call'[r].tid) # {} =>
              call'[r].ret = 1 /\ async_exc'[call'[r].target] = call'[r].exc
        /\ ReturnStep(r) /\ call'[r].ret = 1 =>
              \/ async_exc'[call'[r].target] = call'[r].exc
              \/ \E o \in observed'[call'[r].target] : o.exc = call'[r].exc
              \/ staged'[call'[r].target] > call'[r].stage ]_vars

C3_Witness ==
    \E r \in Callers : call[r].pc = "done" /\ call[r].ret = 1
                       /\ async_exc[call[r].target] = call[r].exc


\* ---- C4 ----
\* a call injected into t with count 1 and t has not raised since
Owed(t) ==
    \E r \in Callers :
        /\ call[r].ret = 1 /\ call[r].target = t
        /\ \A o \in observed[t] : o.idx < call[r].stage

\* t has raised its latest injection
Settled(t) == \E o \in observed[t] : o.idx = staged[t]

\* what t raised for the injection of a call is that call's payload
RaisedIsStaged ==
    \A r \in Callers :
        call[r].ret = 1 =>
            \A o \in observed[call[r].target] : o.idx = call[r].stage => o.exc = call[r].exc

SignalComing(t, i) ==
    \E r \in Callers :
        /\ call[r].target = t /\ call[r].stage = i
        /\ \/ call[r].pc = "l97" /\ system_call_interruptable
           \/ call[r].pc = "l99"

C6_BlockedDisarmedWaits ==
    [][ /\ \A r \in Callers :
            call[r].pc = "l97" /\ call'[r].pc # "l97" /\ ~system_call_interruptable =>
                call'[r].pc = "done" /\ call'[r].kill = "no" /\ pos' = pos /\ woke' = woke
        /\ \A t \in Threads :
            pos[t] = "blocked" /\ pos'[t] # "blocked" /\ handler = SIG_DFL =>
                pos'[t] = "resumed" /\ woke'[t] = "natural"
        /\ \A t \in Threads :
            pos[t] = "resumed" /\ async_exc[t] # NULL /\ pos'[t] # "resumed" =>
                pos'[t] = "raised" /\ [exc |-> async_exc[t], idx |-> staged[t]] \in observed'[t] ]_vars

C6_Witness ==
    \E r \in Callers, t \in Threads :
        /\ call[r].target = t /\ call[r].flag = "false" /\ call[r].pc = "done"
        /\ call[r].stage = staged[t] /\ woke[t] = "natural"
        /\ pos[t] = "raised" /\ [exc |-> call[r].exc, idx |-> call[r].stage] \in observed[t]


\* ---- C7 ----
\* C7: after any sequence of completed enable and disable calls the no-op
\* handler is installed if and only if the flag is true.
C7_HandlerIffFlag ==
    ctl.pc = "idle" => (handler = interrupt_signal_handler <=> system_call_interruptable)

C7_Witness ==
    ctl.pc = "idle" /\ ctl.op = "enable" /\ system_call_interruptable /\ handler = interrupt_signal_handler

\* ---- C8 ----
\* a call of enable or disable that starts in this transition
ToggleStep(op) == ctl.pc = "idle" /\ ctl' # ctl /\ ctl'.op = op

\* C8: enable while armed and disable while not armed return at once (no
\* siginterrupt call, no registration, no restoration) and leave the state
\* unchanged; the handler is registered once per arming, never twice.
C8_Idempotent ==
    /\ [][ /\ ToggleStep("enable") /\ system_call_interruptable =>
                /\ ctl'.pc = "idle"
                /\ UNCHANGED <<system_call_interruptable, handler, siginterrupt, registrations>>
           /\ ToggleStep("disable") /\ ~system_call_interruptable =>
                /\ ctl'.pc = "idle"
                /\ UNCHANGED <<system_call_interruptable, handler, siginterrupt, registrations>>
         ]_vars
    /\ [](ctl.pc = "idle" => registrations = IF system_call_interruptable THEN 1 ELSE 0)

C8_Witness ==
    /\ ctl.pc = "idle" /\ ctl.op = "enable" /\ ~ctl.acted /\ signal_defined
    /\ system_call_interruptable /\ registrations = 1

\* ---- C9 ----
\* a handled signal makes a blocked system call return early
InterruptsSystemCalls == handler = interrupt_signal_handler /\ siginterrupt

C10_TerminatedThread ==
    /\ [](\A r \in Callers :
            call[r].ret = 0 =>
                /\ call[r].logs = <<LogFailed(call[r].exc, call[r].tid)>>
                /\ call[r].logs[1][3] = ExcTypeName(call[r].exc)
                /\ call[r].kill = "no"
                /\ call[r].pc \in {"l97", "done"}
                /\ call[r].pc = "done" => call[r].result = "None")
    /\ [][\A r \in Callers :
            /\ InjectStep(r) /\ Matches(call'[r].tid) = {} =>
                  call'[r].ret = 0 /\ async_exc' = async_exc
            /\ call[r].ret = 0 /\ call[r].pc = "l97" /\ call'[r] # call[r] =>
                  call'[r].pc = "done" /\ async_exc' = async_exc /\ process' = process]_vars

C10_Witness ==
    /\ system_call_interruptable
    /\ ncalls >= 2
    /\ \A r \in Callers : call[r].pc = "done" /\ call[r].ret = 0 /\ call[r].kill = "no"

\* ---- C11 ----
\* C11: on a platform outside the supported family a call attempts no
\* injection and sends no signal, armed or not: it logs exactly one critical
\* entry naming the exception type and the platform, returns None, and leaves
\* every pending-exception slot and the controller state unchanged.
C11_UnsupportedPlatform ==
    /\ [](current_platform \notin supported_platforms =>
            /\ process = "running"
            /\ \A t \in Threads : async_exc[t] = NULL /\ staged[t] = 0 /\ woke[t] # "signal"
            /\ \A r \in Callers :
                /\ call[r].pc \in {"idle", "done"} /\ call[r].kill = "no"
                /\ call[r].pc = "done" =>
                      /\ call[r].logs = <<LogUnsupported(call[r].exc)>>
                      /\ call[r].logs[1][1] = "critical"
                      /\ call[r].logs[1][3] = ExcTypeName(call[r].exc)
                      /\ call[r].logs[1][4] = current_platform
                      /\ call[r].result = "None")
    /\ [][\A r \in Callers :
            call'[r] # call[r] /\ current_platform \notin supported_platforms =>
                /\ call'[r].pc = "done"
                /\ UNCHANGED <<ctlvars, thrvars, process>>]_vars

C11_Witness ==
    /\ current_platform \notin supported_platforms
    /\ system_call_interruptable
    /\ \E r \in Callers : /\ call[r].pc = "done" /\ Len(call[r].logs) = 1
                          /\ pos[call[r].tid] = "blocked"

\* ---- C12 ----
\* C12: when the target thread exits after the injection returned 1 and
\* before pthread_kill, the ProcessLookupError is swallowed: the call returns
\* None, logs nothing, and changes neither the controller nor any thread.
C12_LookupErrorSwallowed ==
    /\ [](\A r \in Callers :
            call[r].kill = "ProcessLookupError" =>
                /\ call[r].ret = 1 /\ call[r].flag = "true"
                /\ call[r].pc = "done" /\ call[r].result = "None"
                /\ call[r].logs = <<>>)
    /\ [][\A r \in Callers :
            call[r].pc = "l99" /\ call'[r] # call[r] /\ Matches(call[r].tid) = {} =>
                /\ call'[r].kill = "ProcessLookupError"
                /\ UNCHANGED <<ctlvars, thrvars, process>>]_vars

C12_Witness ==
    \E r \in Callers : /\ call[r].kill = "ProcessLookupError" /\ call[r].pc = "done"
                       /\ pos[call[r].target] = "exited"
                       /\ \E o \in observed[call[r].target] : o.idx = call[r].stage

\* ---- C13 ----
\* C13: when the injection matches more than one thread state, lines 116-117
\* log one critical entry and retract the injection before the injector
\* returns: on its return no thread has the payload in its slot; the call
\* then sends no signal and returns None.
C13_MultipleRetracted ==
    /\ [][\A r \in Callers :
            /\ InjectStep(r) /\ Cardinality(Matches(call'[r].tid)) > 1 =>
                  call'[r].pc = "l116" /\ call'[r].ret = Cardinality(Matches(call'[r].tid))
            /\ call[r].pc = "l116" /\ call'[r] # call[r] =>
                  /\ call'[r].pc = "l97"
                  /\ call'[r].logs = <<LogMultiple(call[r].exc)>>
                  /\ \A t \in Threads : Alive(t) => async_exc'[t] # call[r].exc
                  /\ \A t \in Matches(call[r].tid) : async_exc'[t] = NULL
            /\ call[r].pc = "l97" /\ call[r].ret > 1 /\ call'[r] # call[r] =>
                  /\ call'[r].pc = "done" /\ call'[r].result = "None"
                  /\ UNCHANGED <<ctlvars, thrvars, process>>]_vars
    /\ [](\A r \in Callers :
            call[r].ret > 1 =>
                /\ call[r].kill = "no" /\ call[r].pc \in {"l116", "l97", "done"}
                /\ call[r].pc # "l116" => call[r].logs = <<LogMultiple(call[r].exc)>>)
    /\ [](process = "running" \/ \E r \in Callers : call[r].ret = 1 /\ call[r].kill = "sent")

C13_Witness ==
    /\ system_call_interruptable
    /\ \E r \in Callers : /\ call[r].pc = "done" /\ call[r].ret = 2
                          /\ \A t \in Matches(call[r].tid) : async_exc[t] = NULL /\ pos[t] = "run"

\* ---- C14 ----
\* a call that has returned to its caller
Returned(r) == call[r].pc = "done"

\* C14 as stated: the value returned to the caller tells an injection with
\* count 1 from every other outcome (count 0, count above 1, unsupported
\* platform), and does not depend on what became of the signal step.
C14_Original ==
    \A r1, r2 \in Callers :
        Returned(r1) /\ Returned(r2) =>
            /\ (call[r1].ret = 1) # (call[r2].ret = 1) => call[r1].result # call[r2].result
            /\ (call[r1].ret = 1) = (call[r2].ret = 1) => call[r1].result = call[r2].result

\* C14 amended: the value returned to the caller is None in every case; the
\* outcome of the injection shows only in the critical log entries (none for
\* count 1), and neither depends on what became of the signal step.
C14_ReturnsNone ==
    \A r \in Callers :
        /\ Returned(r) <=> call[r].result = "None"
        /\ ~Returned(r) => call[r].result = "none"
        /\ Returned(r) =>
              call[r].logs = IF current_platform # "CPython" THEN <<LogUnsupported(call[r].exc)>>
                             ELSE IF call[r].ret = 0 THEN <<LogFailed(call[r].exc, call[r].tid)>>
                             ELSE IF call[r].ret > 1 THEN <<LogMultiple(call[r].exc)>>
                             ELSE <<>>

C14_Witness ==
    \E r1, r2 \in Callers :
        /\ Returned(r1) /\ call[r1].ret = 1 /\ call[r1].kill = "ProcessLookupError"
        /\ Returned(r2) /\ call[r2].ret # 1
        /\ call[r1].result = call[r2].result

\* ---- C15 ----
\* C15: every step of a call for identifier T leaves every thread with
\* another identifier as it was: its pending-exception slot, what it raised,
\* its position and its system call; the signal of line 99 goes to thread T
\* and interrupts no system call of another thread.
C15_OnlyTargetAffected ==
    [][\A r \in Callers :
        call'[r] # call[r] =>
            /\ \A u \in Threads :
                thread_id[u] # call'[r].tid =>
                    /\ async_exc'[u] = async_exc[u] /\ staged'[u] = staged[u]
                    /\ observed'[u] = observed[u]
                    /\ pos'[u] = pos[u] /\ woke'[u] = woke[u]
            /\ KillStep(r) /\ call'[r].kill = "sent" =>
                \A u \in Threads : woke'[u] # woke[u] => thread_id[u] = call[r].tid ]_vars

C15_Witness ==
    \E r \in Callers, u \in Threads :
        /\ call[r].pc = "done" /\ call[r].kill = "sent" /\ call[r].ret = 1
        /\ thread_id[u] # call[r].tid
        /\ pos[u] = "blocked" /\ woke[u] = "none" /\ async_exc[u] = NULL /\ staged[u] = 0
        /\ async_exc[call[r].target] = call[r].exc

\* ---- C16 ----
\* C16: when the host defines no signal of the configured name, every call
\* of enable returns at once and changes nothing: the flag stays false, no
\* handler is installed, and every call of raise_thread_exception injects
\* only and never sends a signal.
C16_UndefinedSignal ==
    /\ [](~signal_defined =>
            /\ ~system_call_interruptable /\ handler = SIG_DFL
            /\ siginterrupt = TRUE /\ registrations = 0
            /\ ctl.pc = "idle" /\ ~ctl.acted
            /\ process = "running"
            /\ \A t \in Threads : woke[t] # "signal"
            /\ \A r \in Callers :
                /\ call[r].kill = "no" /\ call[r].pc # "l99"
                /\ call[r].flag # "true"
                /\ call[r].ret = 1 => staged[call[r].target] >= call[r].stage)
    /\ [][ToggleStep("enable") /\ ~signal_defined =>
            /\ ctl'.pc = "idle"
            /\ UNCHANGED <<system_call_interruptable, handler, siginterrupt, registrations>>
            /\ UNCHANGED <<thrvars, call, process>>]_vars

C16_Witness ==
    /\ ~signal_defined /\ ctl.pc = "idle" /\ ctl.op = "enable"
    /\ \E r \in Callers : /\ call[r].pc = "done" /\ call[r].ret = 1 /\ call[r].flag = "false"
                          /\ pos[call[r].target] = "blocked"
                          /\ async_exc[call[r].target] = call[r].exc

\* ---- C17 ----
\* C17 as stated: with calls of raise_thread_exception running concurrently
\* with enable and disable, at every step of enable and of disable the flag
\* being true implies that the no-op handler is installed, and no signal of
\* line 99 arrives while the signal has its default disposition (the default
\* action of which ends the process).
C17_Original ==
    /\ system_call_interruptable => handler = interrupt_signal_handler
    /\ process = "running"

\* ---- C18 ----
\* C18 as stated: no wake-up is lost.  With the controller armed for the
\* whole call, wherever in T's execution the call interleaves, T is never
\* left in a blocking system call with the call's payload pending in its
\* slot once the call has spent its signal: T would then raise the payload
\* only if the blocking call completed by itself.
C18_Original ==
    \A r \in Callers, t \in Threads :
        /\ call[r].ret = 1 /\ call[r].target = t /\ call[r].flag = "true"
        /\ call[r].stage = staged[t] /\ async_exc[t] = call[r].exc
        /\ pos[t] = "blocked"
        => call[r].pc = "l99"

\* ---- C19 ----
\* C19: with a signal the host defines, after any sequence of completed
\* enable and disable calls the state of the controller is decided by the
\* last call alone: armed with the handler installed after enable, not armed
\* with the default disposition after disable; an enable that follows a
\* disable (or comes first) configures the signal again.
C19_LastCallDecides ==
    /\ [](signal_defined /\ ctl.pc = "idle" =>
            /\ ctl.op = "enable" =>
                  /\ system_call_interruptable /\ handler = interrupt_signal_handler
                  /\ InterruptsSystemCalls
            /\ ctl.op = "disable" =>
                  ~system_call_interruptable /\ handler = SIG_DFL
            /\ ctl.op = "none" =>
                  ~system_call_interruptable /\ handler = SIG_DFL)
    /\ [][signal_defined /\ ToggleStep("enable") /\ ctl.op # "enable" =>
            ctl'.pc = "l60" /\ ctl'.acted]_vars
    /\ [][signal_defined /\ ToggleStep("disable") /\ ctl.op = "enable" =>
            ctl'.pc = "l69" /\ ctl'.acted]_vars

\* armed, then not armed, then armed again: a call that read the flag true, a
\* later call into the same thread that read it false, and the controller
\* armed by the enable that came last
C19_Witness ==
    /\ signal_defined /\ ctl.pc = "idle" /\ ctl.op = "enable" /\ ctl.acted
    /\ system_call_interruptable /\ handler = interrupt_signal_handler
    /\ \E r1, r2 \in Callers :
        /\ call[r1].pc = "done" /\ call[r1].flag = "true"
        /\ call[r2].pc = "done" /\ call[r2].flag = "false"
        /\ call[r1].target = call[r2].target /\ call[r1].stage < call[r2].stage

====
